---- MODULE Spec2Model ----
(***************************************************************************)
(* picdexer, internal/metadata/indexer.go: the concurrent dump pipeline.   *)
(*                                                                         *)
(*   walk (Dump's goroutine) --toExtractChan--> workers (startConverters)  *)
(*        --toDumpChan--> emitter (dump) --> writer                        *)
(*                                                                         *)
(* One behaviour is one call of Indexer.Dump.  The files of the directory  *)
(* are 1..nFiles in walk order; kind[f] says what the conversion of f      *)
(* gives.  The caller's context is taken as never cancelled from outside:  *)
(* ctx is cancelled only by the cancel() calls of the run itself.          *)
(* A failing Encode is a serialization failure and writes nothing.         *)
(***************************************************************************)
EXTENDS Integers, Sequences, FiniteSets

\* Bounds of the model: files under root, workers of a run (a configured or
\* default thread count above MaxThreads is outside the model), and the
\* configured capacity of the task channel (0: the default capacity).
MaxFiles == 3
MaxThreads == 2
MaxChan == 2

\* Files under root when two runs are compared.
MaxRerunFiles == 2

\* Keys a raw metadata record holds, records the metadata facility returns
\* for one file, entries of the tree the sequential Index walks.
MaxPresentKeys == 2
MaxMetaCount == 2
MaxEntries == 3

\* indexer.go:41-42
defaultExtrationThreadCount == 4
defaultToExtractChannelSize == 50

\* What lines 142-153 give for a file: "ok", or "bad" when convert or
\* getBulkEntryHeader returns an error (both end in cancel(); return).
Kinds == {"ok", "bad"}

VARIABLES
    nFiles,         \* number of non-directory files under root
    kind,           \* kind[f]: outcome of convert / getBulkEntryHeader on f
    confThreads,    \* conf.ExtractionThreadCount
    confChanSize,   \* conf.ToExtractChannelSize
    cancelled,      \* ctx.Done() is closed
    toExtractChan,  \* buffered channel of extractTask (file ids)
    extractClosed,  \* close(toExtractChan) has run
    toDumpChan,     \* buffered channel of printTask (file ids)
    dumpClosed,     \* number of close(toDumpChan) calls
    mainPc,         \* Dump's goroutine
    walkNext,       \* next file the walk visits
    walkErr,        \* BrowseImages returned a non-nil error
    dumpRet,        \* value returned by Dump: "none" while running
    wPc,            \* wPc[w]: position of worker w
    wTask,          \* wTask[w]: task held by worker w (0: none)
    poolPc,         \* startConverters: "wait" (consumeWg.Wait) or "done"
    consumeWg,      \* counter of consumeWg
    globalWg,       \* counter of wg
    emPc,           \* position of the emitter
    emTask,         \* task held by the emitter (0: none)
    output,         \* lines written to writer
    \* history, for the properties
    recvCount,      \* recvCount[f]: receptions of task f by workers
    convCount,      \* convCount[f]: calls of convert on f
    convOk,         \* files whose conversion and header succeeded
    sentCount,      \* sentCount[f]: printTasks sent for f
    workerFailed,   \* a worker called cancel()
    emFailed,       \* "none", or the Encode that failed: "header" / "pic"
    prevRun,        \* the documents of an earlier Dump on the same directory
    call,           \* a call of a converter: its argument and its result
    idx             \* a run of the sequential Index (package indexer)

vars == <<nFiles, kind, confThreads, confChanSize, cancelled, toExtractChan,
          extractClosed, toDumpChan, dumpClosed, mainPc, walkNext, walkErr,
          dumpRet, wPc, wTask, poolPc, consumeWg, globalWg, emPc, emTask,
          output, recvCount, convCount, convOk, sentCount, workerFailed,
          emFailed, prevRun, call, idx>>

\* What no step of a run changes: the directory, the configuration, what the
\* Indexer did before this run, and the state of the other entry points.
confVars == <<nFiles, kind, confThreads, confChanSize, prevRun, call, idx>>
mainVars == <<mainPc, walkNext, walkErr, dumpRet>>
workerVars == <<wPc, wTask>>
emVars == <<emPc, emTask, output, emFailed>>
histVars == <<recvCount, convCount, convOk, sentCount, workerFailed>>

Files == 1..nFiles

\* indexer.go:57-63
threadCountOf(n) ==
    IF n < 1 THEN defaultExtrationThreadCount ELSE n

extractionThreadCount == threadCountOf(confThreads)

\* indexer.go:65-71
chanSizeOf(n) ==
    IF n < 1 THEN defaultToExtractChannelSize ELSE n

toExtractChannelSize == chanSizeOf(confChanSize)

Workers == 1..extractionThreadCount

\* No converter is being called; Index is not running.
NoCall == [fn |-> "none", count |-> 0, arg |-> <<>>, done |-> FALSE,
           res |-> <<>>]
NoIndex == [pc |-> "idle"]

\* Dump, lines 164-172: context, channels, wg.Add(2), both goroutines started;
\* startConverters, lines 129-133: consumeWg.Add(threadCount), workers started.
DumpInit ==
    /\ nFiles \in 0..MaxFiles
    /\ kind \in [1..nFiles -> Kinds]
    /\ confThreads \in {n \in 0..MaxThreads : threadCountOf(n) <= MaxThreads}
    /\ confChanSize \in 0..MaxChan
    /\ cancelled = FALSE
    /\ toExtractChan = <<>>
    /\ extractClosed = FALSE
    /\ toDumpChan = <<>>
    /\ dumpClosed = 0
    /\ mainPc = "browse"
    /\ walkNext = 1
    /\ walkErr = FALSE
    /\ dumpRet = "none"
    /\ wPc = [w \in Workers |-> "recv"]
    /\ wTask = [w \in Workers |-> 0]
    /\ poolPc = "wait"
    /\ consumeWg = extractionThreadCount
    /\ globalWg = 2
    /\ emPc = "recv"
    /\ emTask = 0
    /\ output = <<>>
    /\ recvCount = [f \in 1..nFiles |-> 0]
    /\ convCount = [f \in 1..nFiles |-> 0]
    /\ convOk = {}
    /\ sentCount = [f \in 1..nFiles |-> 0]
    /\ workerFailed = FALSE
    /\ emFailed = "none"
    /\ prevRun = [done |-> FALSE, docs |-> {}]

Init == DumpInit /\ call = NoCall /\ idx = NoIndex

----------------------------------------------------------------------------
\* Dump's goroutine: the walk, then close, then the return.

\* BrowseImages finds the next non-directory file and calls the callback.
WalkVisit ==
    /\ mainPc = "browse"
    /\ walkNext <= nFiles
    /\ mainPc' = "callback"
    /\ UNCHANGED <<confVars, cancelled, toExtractChan, extractClosed,
                   toDumpChan, dumpClosed, walkNext, walkErr, dumpRet,
                   workerVars, poolPc, consumeWg, globalWg, emVars, histVars>>

\* Mutant of WalkPush: the send does not wait for room in the channel.
WalkPush_NoBackpressure ==
    /\ mainPc = "callback"
    /\ toExtractChan' = Append(toExtractChan, walkNext)
    /\ walkNext' = walkNext + 1
    /\ mainPc' = "browse"
    /\ UNCHANGED <<confVars, cancelled, extractClosed, toDumpChan, dumpClosed,
                   walkErr, dumpRet, workerVars, poolPc, consumeWg, globalWg,
                   emVars, histVars>>

\* The callback, lines 175-178: a blocking send on toExtractChan.
WalkPush ==
    /\ mainPc = "callback"
    /\ Len(toExtractChan) < toExtractChannelSize
    /\ toExtractChan' = Append(toExtractChan, walkNext)
    /\ walkNext' = walkNext + 1
    /\ mainPc' = "browse"
    /\ UNCHANGED <<confVars, cancelled, extractClosed, toDumpChan, dumpClosed,
                   walkErr, dumpRet, workerVars, poolPc, consumeWg, globalWg,
                   emVars, histVars>>

\* BrowseImages returns nil once every file was visited.
BrowseImagesOk ==
    /\ mainPc = "browse"
    /\ walkNext > nFiles
    /\ walkErr' = FALSE
    /\ mainPc' = "close"
    /\ UNCHANGED <<confVars, cancelled, toExtractChan, extractClosed,
                   toDumpChan, dumpClosed, walkNext, dumpRet, workerVars,
                   poolPc, consumeWg, globalWg, emVars, histVars>>

\* BrowseImages returns a traversal error, at any point of the walk.
BrowseImagesErr ==
    /\ mainPc = "browse"
    /\ walkErr' = TRUE
    /\ mainPc' = "close"
    /\ UNCHANGED <<confVars, cancelled, toExtractChan, extractClosed,
                   toDumpChan, dumpClosed, walkNext, dumpRet, workerVars,
                   poolPc, consumeWg, globalWg, emVars, histVars>>

\* line 180
DumpClose ==
    /\ mainPc = "close"
    /\ extractClosed' = TRUE
    /\ mainPc' = "check"
    /\ UNCHANGED <<confVars, cancelled, toExtractChan, toDumpChan, dumpClosed,
                   walkNext, walkErr, dumpRet, workerVars, poolPc, consumeWg,
                   globalWg, emVars, histVars>>

\* Mutant of DumpReturnErr: the walk error is returned without cancel().
DumpReturnErr_NoCancel ==
    /\ mainPc = "check"
    /\ walkErr
    /\ dumpRet' = "walkErr"
    /\ mainPc' = "returned"
    /\ UNCHANGED <<confVars, cancelled, toExtractChan, extractClosed,
                   toDumpChan, dumpClosed, walkNext, walkErr, workerVars,
                   poolPc, consumeWg, globalWg, emVars, histVars>>

\* lines 181-184: cancel() and return the walk error
DumpReturnErr ==
    /\ mainPc = "check"
    /\ walkErr
    /\ cancelled' = TRUE
    /\ dumpRet' = "walkErr"
    /\ mainPc' = "returned"
    /\ UNCHANGED <<confVars, toExtractChan, extractClosed, toDumpChan,
                   dumpClosed, walkNext, walkErr, workerVars, poolPc,
                   consumeWg, globalWg, emVars, histVars>>

\* Mutant of DumpWaitReturn: nil is returned without wg.Wait().
DumpWaitReturn_NoWait ==
    /\ mainPc = "check"
    /\ ~walkErr
    /\ dumpRet' = "nil"
    /\ mainPc' = "returned"
    /\ UNCHANGED <<confVars, cancelled, toExtractChan, extractClosed,
                   toDumpChan, dumpClosed, walkNext, walkErr, workerVars,
                   poolPc, consumeWg, globalWg, emVars, histVars>>

\* lines 185-186: wg.Wait() and return nil
DumpWaitReturn ==
    /\ mainPc = "check"
    /\ ~walkErr
    /\ globalWg = 0
    /\ dumpRet' = "nil"
    /\ mainPc' = "returned"
    /\ UNCHANGED <<confVars, cancelled, toExtractChan, extractClosed,
                   toDumpChan, dumpClosed, walkNext, walkErr, workerVars,
                   poolPc, consumeWg, globalWg, emVars, histVars>>

----------------------------------------------------------------------------
\* The workers of startConverters, lines 133-157.

\* line 135: range receives a task
WorkerRecv(w) ==
    /\ wPc[w] = "recv"
    /\ toExtractChan # <<>>
    /\ wTask' = [wTask EXCEPT ![w] = Head(toExtractChan)]
    /\ toExtractChan' = Tail(toExtractChan)
    /\ recvCount' = [recvCount EXCEPT ![Head(toExtractChan)] = @ + 1]
    /\ wPc' = [wPc EXCEPT ![w] = "check"]
    /\ UNCHANGED <<confVars, cancelled, extractClosed, toDumpChan, dumpClosed,
                   mainVars, poolPc, consumeWg, globalWg, emVars, convCount,
                   convOk, sentCount, workerFailed>>

\* line 135: range ends on the closed, drained channel; line 134: Done
WorkerRangeEnd(w) ==
    /\ wPc[w] = "recv"
    /\ toExtractChan = <<>>
    /\ extractClosed
    /\ wPc' = [wPc EXCEPT ![w] = "done"]
    /\ consumeWg' = consumeWg - 1
    /\ UNCHANGED <<confVars, cancelled, toExtractChan, extractClosed,
                   toDumpChan, dumpClosed, mainVars, wTask, poolPc, globalWg,
                   emVars, histVars>>

\* Mutant of WorkerCheck: the worker does not look at ctx.Done().
WorkerCheck_NoCheck(w) ==
    /\ wPc[w] = "check"
    /\ wPc' = [wPc EXCEPT ![w] = "convert"]
    /\ UNCHANGED <<confVars, cancelled, toExtractChan, extractClosed,
                   toDumpChan, dumpClosed, mainVars, wTask, poolPc, consumeWg,
                   globalWg, emVars, histVars>>

\* lines 136-140: the non-blocking cancellation check
WorkerCheck(w) ==
    /\ wPc[w] = "check"
    /\ IF cancelled
       THEN /\ wPc' = [wPc EXCEPT ![w] = "done"]
            /\ wTask' = [wTask EXCEPT ![w] = 0]
            /\ consumeWg' = consumeWg - 1
       ELSE /\ wPc' = [wPc EXCEPT ![w] = "convert"]
            /\ UNCHANGED <<consumeWg, wTask>>
    /\ UNCHANGED <<confVars, cancelled, toExtractChan, extractClosed,
                   toDumpChan, dumpClosed, mainVars, poolPc, globalWg,
                   emVars, histVars>>

\* Mutant of WorkerConvert: after an error the worker cancels but does not
\* return, and goes on to send a printTask.
WorkerConvert_SendOnError(w) ==
    /\ wPc[w] = "convert"
    /\ convCount' = [convCount EXCEPT ![wTask[w]] = @ + 1]
    /\ IF kind[wTask[w]] = "ok"
       THEN /\ convOk' = convOk \cup {wTask[w]}
            /\ UNCHANGED <<cancelled, workerFailed>>
       ELSE /\ cancelled' = TRUE
            /\ workerFailed' = TRUE
            /\ UNCHANGED convOk
    /\ wPc' = [wPc EXCEPT ![w] = "send"]
    /\ UNCHANGED <<confVars, toExtractChan, extractClosed, toDumpChan,
                   dumpClosed, mainVars, wTask, poolPc, consumeWg, globalWg,
                   emVars, recvCount, sentCount>>

\* Mutant of WorkerConvert: after an error the worker converts the task again.
WorkerConvert_Retry(w) ==
    /\ wPc[w] = "convert"
    /\ convCount' = [convCount EXCEPT ![wTask[w]] = @ + 1]
    /\ IF kind[wTask[w]] = "ok"
       THEN /\ convOk' = convOk \cup {wTask[w]}
            /\ wPc' = [wPc EXCEPT ![w] = "send"]
       ELSE /\ UNCHANGED <<convOk, wPc>>
    /\ UNCHANGED <<confVars, cancelled, toExtractChan, extractClosed,
                   toDumpChan, dumpClosed, mainVars, wTask, poolPc, consumeWg,
                   globalWg, emVars, recvCount, sentCount, workerFailed>>

\* lines 142-153: convert, then getBulkEntryHeader; on error cancel and return
WorkerConvert(w) ==
    /\ wPc[w] = "convert"
    /\ convCount' = [convCount EXCEPT ![wTask[w]] = @ + 1]
    /\ IF kind[wTask[w]] = "ok"
       THEN /\ convOk' = convOk \cup {wTask[w]}
            /\ wPc' = [wPc EXCEPT ![w] = "send"]
            /\ UNCHANGED <<cancelled, consumeWg, workerFailed, wTask>>
       ELSE /\ cancelled' = TRUE
            /\ workerFailed' = TRUE
            /\ wPc' = [wPc EXCEPT ![w] = "done"]
            /\ wTask' = [wTask EXCEPT ![w] = 0]
            /\ consumeWg' = consumeWg - 1
            /\ UNCHANGED convOk
    /\ UNCHANGED <<confVars, toExtractChan, extractClosed, toDumpChan,
                   dumpClosed, mainVars, poolPc, globalWg, emVars,
                   recvCount, sentCount>>

\* Mutant of WorkerSend: a non-blocking send that drops the printTask when
\* toDumpChan is full.
WorkerSend_DropWhenFull(w) ==
    /\ wPc[w] = "send"
    /\ IF Len(toDumpChan) < extractionThreadCount
       THEN /\ toDumpChan' = Append(toDumpChan, wTask[w])
            /\ sentCount' = [sentCount EXCEPT ![wTask[w]] = @ + 1]
       ELSE UNCHANGED <<toDumpChan, sentCount>>
    /\ wTask' = [wTask EXCEPT ![w] = 0]
    /\ wPc' = [wPc EXCEPT ![w] = "recv"]
    /\ UNCHANGED <<confVars, cancelled, toExtractChan, extractClosed,
                   dumpClosed, mainVars, poolPc, consumeWg, globalWg, emVars,
                   recvCount, convCount, convOk, workerFailed>>

\* line 154: a blocking send on toDumpChan (capacity: the thread count, line 167)
WorkerSend(w) ==
    /\ wPc[w] = "send"
    /\ Len(toDumpChan) < extractionThreadCount
    /\ toDumpChan' = Append(toDumpChan, wTask[w])
    /\ sentCount' = [sentCount EXCEPT ![wTask[w]] = @ + 1]
    /\ wTask' = [wTask EXCEPT ![w] = 0]
    /\ wPc' = [wPc EXCEPT ![w] = "recv"]
    /\ UNCHANGED <<confVars, cancelled, toExtractChan, extractClosed,
                   dumpClosed, mainVars, poolPc, consumeWg, globalWg, emVars,
                   recvCount, convCount, convOk, workerFailed>>

\* Mutant of StartConvertersClose: the pool ends without close(toDumpChan).
StartConvertersClose_NoClose ==
    /\ poolPc = "wait"
    /\ consumeWg = 0
    /\ poolPc' = "done"
    /\ globalWg' = globalWg - 1
    /\ UNCHANGED <<confVars, cancelled, toExtractChan, extractClosed,
                   toDumpChan, dumpClosed, mainVars, workerVars, consumeWg,
                   emVars, histVars>>

\* Mutant of StartConvertersClose: close(toDumpChan) without consumeWg.Wait().
StartConvertersClose_NoWait ==
    /\ poolPc = "wait"
    /\ dumpClosed' = dumpClosed + 1
    /\ poolPc' = "done"
    /\ globalWg' = globalWg - 1
    /\ UNCHANGED <<confVars, cancelled, toExtractChan, extractClosed,
                   toDumpChan, mainVars, workerVars, consumeWg, emVars,
                   histVars>>

\* lines 159-160 and the deferred Done of line 128
StartConvertersClose ==
    /\ poolPc = "wait"
    /\ consumeWg = 0
    /\ dumpClosed' = dumpClosed + 1
    /\ poolPc' = "done"
    /\ globalWg' = globalWg - 1
    /\ UNCHANGED <<confVars, cancelled, toExtractChan, extractClosed,
                   toDumpChan, mainVars, workerVars, consumeWg, emVars,
                   histVars>>

----------------------------------------------------------------------------
\* The emitter, dump, lines 104-125.

\* line 107: range receives a printTask
EmitterRecv ==
    /\ emPc = "recv"
    /\ toDumpChan # <<>>
    /\ emTask' = Head(toDumpChan)
    /\ toDumpChan' = Tail(toDumpChan)
    /\ emPc' = "check"
    /\ UNCHANGED <<confVars, cancelled, toExtractChan, extractClosed,
                   dumpClosed, mainVars, workerVars, poolPc, consumeWg,
                   globalWg, output, emFailed, histVars>>

\* line 107: range ends on the closed, drained channel; line 105: Done
EmitterRangeEnd ==
    /\ emPc = "recv"
    /\ toDumpChan = <<>>
    /\ dumpClosed > 0
    /\ emPc' = "done"
    /\ globalWg' = globalWg - 1
    /\ UNCHANGED <<confVars, cancelled, toExtractChan, extractClosed,
                   toDumpChan, dumpClosed, mainVars, workerVars, poolPc,
                   consumeWg, emTask, output, emFailed, histVars>>

\* lines 108-112
EmitterCheck ==
    /\ emPc = "check"
    /\ IF cancelled
       THEN /\ emPc' = "done"
            /\ globalWg' = globalWg - 1
       ELSE /\ emPc' = "header"
            /\ UNCHANGED globalWg
    /\ UNCHANGED <<confVars, cancelled, toExtractChan, extractClosed,
                   toDumpChan, dumpClosed, mainVars, workerVars, poolPc,
                   consumeWg, emTask, output, emFailed, histVars>>

\* lines 114-118: Encode(task.header)
EmitterHeader ==
    /\ emPc = "header"
    /\ \E ok \in BOOLEAN :
        IF ok
        THEN /\ output' = Append(output, <<"header", emTask>>)
             /\ emPc' = "pic"
             /\ UNCHANGED <<cancelled, globalWg, emFailed>>
        ELSE /\ cancelled' = TRUE
             /\ emFailed' = "header"
             /\ emPc' = "done"
             /\ globalWg' = globalWg - 1
             /\ UNCHANGED output
    /\ UNCHANGED <<confVars, toExtractChan, extractClosed, toDumpChan,
                   dumpClosed, mainVars, workerVars, poolPc, consumeWg,
                   emTask, histVars>>

\* Mutant of EmitterPic: after a failed Encode the emitter cancels but does
\* not return, and goes on with the next printTask.
EmitterPic_ContinueOnError ==
    /\ emPc = "pic"
    /\ \E ok \in BOOLEAN :
        IF ok
        THEN /\ output' = Append(output, <<"pic", emTask>>)
             /\ UNCHANGED <<cancelled, emFailed>>
        ELSE /\ cancelled' = TRUE
             /\ emFailed' = "pic"
             /\ UNCHANGED output
    /\ emPc' = "recv"
    /\ UNCHANGED <<confVars, toExtractChan, extractClosed, toDumpChan,
                   dumpClosed, mainVars, workerVars, poolPc, consumeWg,
                   globalWg, emTask, histVars>>

\* lines 119-123: Encode(task.pic)
EmitterPic ==
    /\ emPc = "pic"
    /\ \E ok \in BOOLEAN :
        IF ok
        THEN /\ output' = Append(output, <<"pic", emTask>>)
             /\ emPc' = "recv"
             /\ UNCHANGED <<cancelled, globalWg, emFailed>>
        ELSE /\ cancelled' = TRUE
             /\ emFailed' = "pic"
             /\ emPc' = "done"
             /\ globalWg' = globalWg - 1
             /\ UNCHANGED output
    /\ UNCHANGED <<confVars, toExtractChan, extractClosed, toDumpChan,
                   dumpClosed, mainVars, workerVars, poolPc, consumeWg,
                   emTask, histVars>>

----------------------------------------------------------------------------
Next ==
    \/ WalkVisit
    \/ WalkPush
    \/ BrowseImagesOk
    \/ BrowseImagesErr
    \/ DumpClose
    \/ DumpReturnErr
    \/ DumpWaitReturn
    \/ \E w \in Workers : WorkerRecv(w)
    \/ \E w \in Workers : WorkerRangeEnd(w)
    \/ \E w \in Workers : WorkerCheck(w)
    \/ \E w \in Workers : WorkerConvert(w)
    \/ \E w \in Workers : WorkerSend(w)
    \/ StartConvertersClose
    \/ EmitterRecv
    \/ EmitterRangeEnd
    \/ EmitterCheck
    \/ EmitterHeader
    \/ EmitterPic

Spec == Init /\ [][Next]_vars

\* The files of the documents written: a document is the header/record pair of
\* one file, the same bytes in every run but for the run identifier.
DocSet == {output[i][2] : i \in {j \in 1..Len(output) : output[j][1] = "pic"}}

\* Dump is called again on the unchanged directory, after a first call that
\* returned nil (so that every goroutine of it has ended) and in which no
\* Encode failed: the documents of the first call are remembered.
Rerun ==
    /\ ~prevRun.done
    /\ mainPc = "returned"
    /\ dumpRet = "nil"
    /\ emFailed = "none"
    /\ prevRun' = [done |-> TRUE, docs |-> DocSet]
    /\ cancelled' = FALSE
    /\ toExtractChan' = <<>>
    /\ extractClosed' = FALSE
    /\ toDumpChan' = <<>>
    /\ dumpClosed' = 0
    /\ mainPc' = "browse"
    /\ walkNext' = 1
    /\ walkErr' = FALSE
    /\ dumpRet' = "none"
    /\ wPc' = [w \in Workers |-> "recv"]
    /\ wTask' = [w \in Workers |-> 0]
    /\ poolPc' = "wait"
    /\ consumeWg' = extractionThreadCount
    /\ globalWg' = 2
    /\ emPc' = "recv"
    /\ emTask' = 0
    /\ output' = <<>>
    /\ recvCount' = [f \in Files |-> 0]
    /\ convCount' = [f \in Files |-> 0]
    /\ convOk' = {}
    /\ sentCount' = [f \in Files |-> 0]
    /\ workerFailed' = FALSE
    /\ emFailed' = "none"
    /\ UNCHANGED <<nFiles, kind, confThreads, confChanSize, call, idx>>

\* Two runs, one after the other, over the same directory.
NextRerun == Next \/ Rerun

InitRerun == Init /\ nFiles <= MaxRerunFiles

RerunSpec == InitRerun /\ [][NextRerun]_vars

\* The Go scheduler runs every runnable goroutine: each step that stays
\* possible is eventually taken.  A traversal error (BrowseImagesErr) is an
\* event of the file system, never owed.
Fairness ==
    /\ WF_vars(WalkVisit)
    /\ WF_vars(WalkPush)
    /\ WF_vars(BrowseImagesOk)
    /\ WF_vars(DumpClose)
    /\ WF_vars(DumpReturnErr)
    /\ WF_vars(DumpWaitReturn)
    /\ \A w \in 1..MaxThreads :
          WF_vars(w \in Workers
                  /\ (WorkerRecv(w) \/ WorkerRangeEnd(w) \/ WorkerCheck(w)
                      \/ WorkerConvert(w) \/ WorkerSend(w)))
    /\ WF_vars(StartConvertersClose)
    /\ WF_vars(EmitterRecv \/ EmitterRangeEnd \/ EmitterCheck
               \/ EmitterHeader \/ EmitterPic)

FairSpec == Spec /\ Fairness

----------------------------------------------------------------------------
\* The converters of package indexer (src/unnamed/part_000) and convert of
\* package metadata.  A Go string is the sequence of its characters; a value
\* of a raw metadata record is tagged with its dynamic type.

Digits == <<"0", "1", "2", "3", "4", "5", "6", "7", "8", "9">>

IsDigit(c) == \E i \in 1..Len(Digits) : Digits[i] = c

DigitVal(c) == (CHOOSE i \in 1..Len(Digits) : Digits[i] = c) - 1

IsNumber(s) == Len(s) > 0 /\ \A i \in 1..Len(s) : IsDigit(s[i])

RECURSIVE NumVal(_)
NumVal(s) ==
    IF Len(s) = 0 THEN 0
    ELSE 10 * NumVal(SubSeq(s, 1, Len(s) - 1)) + DigitVal(s[Len(s)])

\* strconv.ParseFloat(s, 32) returns no error.  Over the characters of the
\* inputs below (the digits 1 and 2, letters, quote marks and the comma) the
\* strings it accepts are a run of digits, optionally followed by E and an
\* exponent that keeps the value within float32 (at most 10^38).
ParsesAsFloat(s) ==
    \/ IsNumber(s)
    \/ \E e \in 2..(Len(s) - 1) :
          /\ s[e] = "E"
          /\ IsNumber(SubSeq(s, 1, e - 1))
          /\ IsNumber(SubSeq(s, e + 1, Len(s)))
          /\ Len(s) - e <= 2
          /\ (e - 2) + NumVal(SubSeq(s, e + 1, Len(s))) <= 38

\* strings.Split(s, " "): the pieces of s between its spaces, empty ones
\* included; the empty string has one (empty) piece.
RECURSIVE SplitFrom(_, _, _)
SplitFrom(s, i, cur) ==
    IF i > Len(s) THEN <<cur>>
    ELSE IF s[i] = " " THEN <<cur>> \o SplitFrom(s, i + 1, <<>>)
    ELSE SplitFrom(s, i + 1, Append(cur, s[i]))

Split(s) == SplitFrom(s, 1, <<>>)

\* The string whose split on spaces is toks (toks not empty).
RECURSIVE Join(_)
Join(toks) ==
    IF Len(toks) = 0 THEN <<>>
    ELSE IF Len(toks) = 1 THEN toks[1]
    ELSE toks[1] \o <<" ">> \o Join(Tail(toks))

\* strings.HasPrefix(s, prefix)
HasPrefix(s, prefix) ==
    Len(s) >= Len(prefix) /\ SubSeq(s, 1, Len(prefix)) = prefix

IMAGE_MIME_TYPE == <<"i", "m", "a", "g", "e", "/">>

\* skipLastChar, lines 219-221: src[:len(src)-1], a run-time panic (slice
\* bounds out of range) when src is empty.
skipLastChar(src) ==
    IF Len(src) = 0 THEN [panic |-> TRUE, v |-> <<>>]
    ELSE [panic |-> FALSE, v |-> SubSeq(src, 1, Len(src) - 1)]

NoCoord == [sign |-> 0, deg |-> <<>>, min |-> <<>>, sec |-> <<>>]

\* degMinSecToDecimal, lines 195-217: the three numbers are parsed in the
\* order deg, min, sec, then the letter is looked at.  The float32 result
\* (deg + min/60 + sec/3600) * mult is kept as its sign and its three terms.
degMinSecToDecimal(deg, min, sec, let) ==
    IF ~ParsesAsFloat(deg) THEN [err |-> "deg", v |-> NoCoord]
    ELSE IF ~ParsesAsFloat(min) THEN [err |-> "min", v |-> NoCoord]
    ELSE IF ~ParsesAsFloat(sec) THEN [err |-> "sec", v |-> NoCoord]
    ELSE IF let = <<"S">> \/ let = <<"W">>
         THEN [err |-> "none",
               v |-> [sign |-> -1, deg |-> deg, min |-> min, sec |-> sec]]
    ELSE IF let = <<"N">> \/ let = <<"E">>
         THEN [err |-> "none",
               v |-> [sign |-> 1, deg |-> deg, min |-> min, sec |-> sec]]
    ELSE [err |-> "letter", v |-> NoCoord]

GpsResult(st, lat, long) == [st |-> st, lat |-> lat, long |-> long]

\* convertGPSCoordinates, lines 223-237.  The arguments of a call are
\* evaluated before the call: the three skipLastChar of the latitude run
\* before its degMinSecToDecimal, and those of the longitude only when the
\* latitude was converted.  sub[i] of the code is sub[i + 1] here.
convertGPSCoordinates(latLong) ==
    LET sub == Split(latLong) IN
    IF Len(sub) # 10 THEN GpsResult("err", NoCoord, NoCoord)
    ELSE
      LET latMin == skipLastChar(sub[3])
          latSec == skipLastChar(sub[4])
          latLet == skipLastChar(sub[5])
      IN
      IF latMin.panic \/ latSec.panic \/ latLet.panic
      THEN GpsResult("panic", NoCoord, NoCoord)
      ELSE
        LET lat == degMinSecToDecimal(sub[1], latMin.v, latSec.v, latLet.v) IN
        IF lat.err # "none" THEN GpsResult("err", NoCoord, NoCoord)
        ELSE
          LET longMin == skipLastChar(sub[8])
              longSec == skipLastChar(sub[9])
          IN
          IF longMin.panic \/ longSec.panic
          THEN GpsResult("panic", NoCoord, NoCoord)
          ELSE
            LET long == degMinSecToDecimal(sub[6], longMin.v, longSec.v,
                                           sub[10])
            IN
            IF long.err # "none" THEN GpsResult("err", NoCoord, NoCoord)
            ELSE GpsResult("ok", lat.v, long.v)

\* The position strings the converter is called with: ten tokens drawn
\* position by position (as exiftool prints them: 12 deg 1' 2" N, 12 deg 1'
\* 2" E; a token that does not parse; an empty token, that is two spaces in
\* a row), the same with the last token missing or one token more, the empty
\* string and a single token.
DegTokens == {<<"1", "2">>, <<"X">>}
UnitTokens == {<<"d", "e", "g">>}
MinTokens == {<<"1", "'">>, <<"X", "'">>, <<>>}
SecTokens == {<<"2", "\"">>, <<"X", "\"">>, <<>>}
LatLetTokens == {<<"N", ",">>, <<"S", ",">>, <<"X", ",">>, <<"N">>, <<>>}
LongLetTokens == {<<"E">>, <<"W">>, <<"X">>, <<>>}

TenTokens ==
    {<<d1, u1, m1, s1, l1, d2, u2, m2, s2, l2>> :
        d1 \in DegTokens, u1 \in UnitTokens, m1 \in MinTokens,
        s1 \in SecTokens, l1 \in LatLetTokens,
        d2 \in DegTokens, u2 \in UnitTokens, m2 \in MinTokens,
        s2 \in SecTokens, l2 \in LongLetTokens}

GpsTokenLists ==
    TenTokens
      \cup {SubSeq(l, 1, Len(l) - 1) : l \in TenTokens}
      \cup {Append(l, <<"E">>) : l \in TenTokens}
      \cup {<<>>, << <<"X">> >>}

GpsStrings == {Join(l) : l \in GpsTokenLists}

\* A value of exif.FileMetadata.Fields (map[string]interface{}): a float64,
\* a string, or a []interface{} of such values; Absent for a key the map
\* does not hold, and for the nil pointer of a Model field.  Pos is the
\* position string convert builds from two coordinates.
Absent == [t |-> "absent", n |-> 0, s |-> <<>>, l |-> <<>>, g |-> <<>>]
Num(n) == [Absent EXCEPT !.t = "num", !.n = n]
Str(s) == [Absent EXCEPT !.t = "str", !.s = s]
List(l) == [Absent EXCEPT !.t = "list", !.l = l]
Pos(lat, long) == [Absent EXCEPT !.t = "pos", !.g = <<lat, long>>]

APERTURE_KEY == "Aperture"
SHUTTER_KEY == "ShutterSpeed"
KEYWORDS_KEY == "Keywords"
CAMERA_KEY == "Model"
LENS_KEY == "LensModel"
MIMETYPE_KEY == "MIMEType"
HEIGHT_KEY == "ImageHeight"
WIDTH_KEY == "ImageWidth"
CAPTUREDATE_KEY == "CreateDate"
GPS_KEY == "GPSPosition"
isoKey == "ISO"

Keys == {APERTURE_KEY, SHUTTER_KEY, KEYWORDS_KEY, CAMERA_KEY, LENS_KEY,
         MIMETYPE_KEY, HEIGHT_KEY, WIDTH_KEY, CAPTUREDATE_KEY, GPS_KEY,
         isoKey}

\* What a getter hands back: a panic, or the pointer it returns.
Got(v) == [panic |-> FALSE, v |-> v]
Panicked == [panic |-> TRUE, v |-> Absent]

\* fmt.Sprintf("%v", f) of a float64 holding a small whole number
RECURSIVE FormatInt(_)
FormatInt(n) ==
    IF n < 10 THEN <<Digits[n + 1]>>
    ELSE FormatInt(n \div 10) \o <<Digits[(n % 10) + 1]>>

\* getFloat, lines 103-110: v.(float64) panics on any other dynamic type.
getFloat(m, k) ==
    IF m[k].t = "absent" THEN Got(Absent)
    ELSE IF m[k].t = "num" THEN Got(m[k])
    ELSE Panicked

\* getString, lines 112-123: a string as it is, a float64 formatted, nil
\* for anything else.
getString(m, k) ==
    IF m[k].t = "str" THEN Got(m[k])
    ELSE IF m[k].t = "num" THEN Got(Str(FormatInt(m[k].n)))
    ELSE Got(Absent)

\* getUint64FromFloat64, lines 125-132: uint64(v.(float64)), the same panic.
getUint64FromFloat64(m, k) ==
    IF m[k].t = "absent" THEN Got(Absent)
    ELSE IF m[k].t = "num" THEN Got(m[k])
    ELSE Panicked

\* convert, lines 159-171: a list gives its elements, each asserted to be a
\* string (a panic otherwise); a string gives a one-element list; any other
\* value gives the nil slice.
getKeywords(m) ==
    LET raw == m[KEYWORDS_KEY] IN
    IF raw.t = "absent" THEN Got(Absent)
    ELSE IF raw.t = "list"
         THEN IF \A i \in 1..Len(raw.l) : raw.l[i].t = "str"
              THEN Got(raw)
              ELSE Panicked
    ELSE IF raw.t = "str" THEN Got(List(<<raw>>))
    ELSE Got(Absent)

\* time.Parse(SRC_DATE_FORMAT, s) for the layout "2006:01:02 15:04:05":
\* nineteen characters, digits around the separators, each field in range.
SRC_DATE_FORMAT == <<"2", "0", "0", "6", ":", "0", "1", ":", "0", "2", " ",
                     "1", "5", ":", "0", "4", ":", "0", "5">>

DateSeparators == {i \in 1..Len(SRC_DATE_FORMAT) :
                      ~IsDigit(SRC_DATE_FORMAT[i])}

DateField(s, from, to) == NumVal(SubSeq(s, from, to))

IsLeap(y) == (y % 4 = 0 /\ y % 100 # 0) \/ y % 400 = 0

DaysIn(y, mo) ==
    IF mo = 2 THEN (IF IsLeap(y) THEN 29 ELSE 28)
    ELSE IF mo \in {4, 6, 9, 11} THEN 30 ELSE 31

DateParses(s) ==
    /\ Len(s) = Len(SRC_DATE_FORMAT)
    /\ \A i \in 1..Len(s) :
          IF i \in DateSeparators THEN s[i] = SRC_DATE_FORMAT[i]
          ELSE IsDigit(s[i])
    /\ DateField(s, 6, 7) \in 1..12
    /\ DateField(s, 9, 10) \in 1..DaysIn(DateField(s, 1, 4), DateField(s, 6, 7))
    /\ DateField(s, 12, 13) <= 23
    /\ DateField(s, 15, 16) <= 59
    /\ DateField(s, 18, 19) <= 59

\* d.Unix(): the seconds since 1970-01-01 of a date that parses (time.Parse
\* reads it as UTC), by the days of the civil calendar.
UnixSeconds(s) ==
    LET y0  == DateField(s, 1, 4)
        mo  == DateField(s, 6, 7)
        y   == IF mo <= 2 THEN y0 - 1 ELSE y0
        era == y \div 400
        yoe == y - era * 400
        mp  == IF mo > 2 THEN mo - 3 ELSE mo + 9
        doy == (153 * mp + 2) \div 5 + DateField(s, 9, 10) - 1
        doe == yoe * 365 + yoe \div 4 - yoe \div 100 + doy
        days == era * 146097 + doe - 719468
    IN days * 86400 + DateField(s, 12, 13) * 3600
         + DateField(s, 15, 16) * 60 + DateField(s, 18, 19)

\* convert, lines 173-181: rawDate.(string) panics on a non-string; a parse
\* error is returned; strconv.FormatInt(d.Unix()*1000, 10) for the dates
\* after 1970 is the seconds followed by three zeros.
getCaptureDate(m) ==
    LET raw == m[CAPTUREDATE_KEY] IN
    IF raw.t = "absent" THEN [st |-> "ok", v |-> Absent]
    ELSE IF raw.t # "str" THEN [st |-> "panic", v |-> Absent]
    ELSE IF ~DateParses(raw.s) THEN [st |-> "err", v |-> Absent]
    ELSE [st |-> "ok",
          v |-> Str(FormatInt(UnixSeconds(raw.s)) \o <<"0", "0", "0">>)]

\* convert, lines 183-190: gpsVal.(string) panics on a non-string; an error
\* of convertGPSCoordinates is returned; the position is "lat,long".
getGPSPosition(m) ==
    LET raw == m[GPS_KEY] IN
    IF raw.t = "absent" THEN [st |-> "ok", v |-> Absent]
    ELSE IF raw.t # "str" THEN [st |-> "panic", v |-> Absent]
    ELSE LET r == convertGPSCoordinates(raw.s) IN
         IF r.st = "ok"
         THEN [st |-> "ok", v |-> Pos(r.lat, r.long)]
         ELSE [st |-> r.st, v |-> Absent]

EmptyPic == [k \in Keys |-> Absent]

ConvResult(st, pic) == [st |-> st, pic |-> pic]

\* Indexer.convert of package indexer, lines 134-193, in the order of its
\* statements: the first panic or returned error ends the call.
indexer_convert(count, meta) ==
    IF count # 1 THEN ConvResult("err", EmptyPic)
    ELSE
      LET aperture == getFloat(meta, APERTURE_KEY)
          height   == getUint64FromFloat64(meta, HEIGHT_KEY)
          width    == getUint64FromFloat64(meta, WIDTH_KEY)
          kws      == getKeywords(meta)
          date     == getCaptureDate(meta)
          gps      == getGPSPosition(meta)
          pic == [k \in Keys |->
                    IF k = APERTURE_KEY THEN aperture.v
                    ELSE IF k \in {SHUTTER_KEY, CAMERA_KEY, LENS_KEY,
                                   MIMETYPE_KEY} THEN getString(meta, k).v
                    ELSE IF k = HEIGHT_KEY THEN height.v
                    ELSE IF k = WIDTH_KEY THEN width.v
                    ELSE IF k = KEYWORDS_KEY THEN kws.v
                    ELSE IF k = CAPTUREDATE_KEY THEN date.v
                    ELSE IF k = GPS_KEY THEN gps.v
                    ELSE Absent]
      IN
      IF aperture.panic \/ height.panic \/ width.panic \/ kws.panic
      THEN ConvResult("panic", EmptyPic)
      ELSE IF date.st # "ok" THEN ConvResult(date.st, EmptyPic)
      ELSE IF gps.st # "ok" THEN ConvResult(gps.st, EmptyPic)
      ELSE ConvResult("ok", pic)

\* The getters of package metadata return one value and no error: the typed
\* value, or nil.  A number is read from a float64 or from a string of
\* digits; a string list from a list of strings or from one string; the
\* capture date and the position from a string that converts.
getFloat64(m, k) ==
    IF m[k].t = "num" THEN m[k]
    ELSE IF m[k].t = "str" /\ IsNumber(m[k].s) THEN Num(NumVal(m[k].s))
    ELSE Absent

getInt64(m, k) == getFloat64(m, k)

metadata_getString(m, k) == IF m[k].t = "str" THEN m[k] ELSE Absent

getStrings(m, k) ==
    IF m[k].t = "list" /\ \A i \in 1..Len(m[k].l) : m[k].l[i].t = "str"
    THEN m[k]
    ELSE IF m[k].t = "str" THEN List(<<m[k]>>)
    ELSE Absent

getDate(m, k) ==
    IF m[k].t = "str" /\ DateParses(m[k].s)
    THEN Str(FormatInt(UnixSeconds(m[k].s)) \o <<"0", "0", "0">>)
    ELSE Absent

getGPS(m, k) ==
    IF m[k].t = "str" /\ convertGPSCoordinates(m[k].s).st = "ok"
    THEN Pos(convertGPSCoordinates(m[k].s).lat,
             convertGPSCoordinates(m[k].s).long)
    ELSE Absent

\* Indexer.convert of package metadata, indexer.go lines 189-220: the only
\* error it returns is the wrong metadata count (lines 194-196); every field
\* is the value of a getter.
metadata_convert(count, meta) ==
    IF count # 1 THEN ConvResult("err", EmptyPic)
    ELSE ConvResult("ok",
           [k \in Keys |->
              IF k = APERTURE_KEY THEN getFloat64(meta, k)
              ELSE IF k \in {isoKey, HEIGHT_KEY, WIDTH_KEY}
                   THEN getInt64(meta, k)
              ELSE IF k = KEYWORDS_KEY THEN getStrings(meta, k)
              ELSE IF k = CAPTUREDATE_KEY THEN getDate(meta, k)
              ELSE IF k = GPS_KEY THEN getGPS(meta, k)
              ELSE metadata_getString(meta, k)])

\* The raw records the converters are called with.  Every key holds, when
\* present, a number, a string, a list of strings or a list with a
\* non-string element; the MIME type, the capture date and the position
\* also hold strings of their own formats.
GoodDate == <<"2", "0", "2", "1", ":", "0", "3", ":", "1", "5", " ",
              "1", "0", ":", "3", "0", ":", "0", "0">>
BadMonthDate == <<"2", "0", "2", "1", ":", "1", "3", ":", "1", "5", " ",
                  "1", "0", ":", "3", "0", ":", "0", "0">>
ShortDate == <<"2", "0", "2", "1", ":", "0", "3", ":", "1", "5">>

GoodGps == Join(<< <<"1", "2">>, <<"d", "e", "g">>, <<"1", "'">>,
                   <<"2", "\"">>, <<"N", ",">>, <<"1", "2">>,
                   <<"d", "e", "g">>, <<"1", "'">>, <<"2", "\"">>, <<"W">> >>)
BadLetterGps == Join(<< <<"1", "2">>, <<"d", "e", "g">>, <<"1", "'">>,
                        <<"2", "\"">>, <<"X", ",">>, <<"1", "2">>,
                        <<"d", "e", "g">>, <<"1", "'">>, <<"2", "\"">>,
                        <<"W">> >>)
EmptyTokenGps == Join(<< <<"1", "2">>, <<"d", "e", "g">>, <<>>,
                         <<"2", "\"">>, <<"N", ",">>, <<"1", "2">>,
                         <<"d", "e", "g">>, <<"1", "'">>, <<"2", "\"">>,
                         <<"W">> >>)

ImageMime == <<"i", "m", "a", "g", "e", "/", "j", "p", "g">>
VideoMime == <<"v", "i", "d", "e", "o", "/", "m", "p", "4">>

CommonValues ==
    {Num(3), Str(<<"X">>), Str(<<"1", "2">>), List(<<Str(<<"X">>)>>),
     List(<<Str(<<"X">>), Num(3)>>)}

ValuesFor(k) ==
    IF k = MIMETYPE_KEY
    THEN CommonValues \cup {Str(ImageMime), Str(VideoMime)}
    ELSE IF k = CAPTUREDATE_KEY
    THEN CommonValues \cup {Str(GoodDate), Str(BadMonthDate), Str(ShortDate)}
    ELSE IF k = GPS_KEY
    THEN CommonValues \cup {Str(GoodGps), Str(BadLetterGps),
                            Str(EmptyTokenGps)}
    ELSE CommonValues

AllValues == UNION {ValuesFor(k) : k \in Keys}

MetasOver(S) ==
    {[k \in Keys |-> IF k \in S THEN f[k] ELSE Absent] :
        f \in {g \in [S -> AllValues] : \A k \in S : g[k] \in ValuesFor(k)}}

PresentKeys == {S \in SUBSET Keys : Cardinality(S) <= MaxPresentKeys}

\* len(metas) of ExtractMetadata: no record, one, several.
MetaCounts == 0..MaxMetaCount

Call(fn, count, arg) ==
    [fn |-> fn, count |-> count, arg |-> arg, done |-> FALSE, res |-> <<>>]

\* No Dump is running: an empty directory and the smallest configuration.
DumpIdle == DumpInit /\ nFiles = 0 /\ confThreads = 1 /\ confChanSize = 1

InitCall ==
    /\ DumpIdle
    /\ idx = NoIndex
    /\ \/ \E s \in GpsStrings : call = Call("convertGPSCoordinates", 0, s)
       \/ \E fn \in {"indexer_convert", "metadata_convert"} :
             \E n \in MetaCounts, S \in PresentKeys :
                \E m \in MetasOver(S) : call = Call(fn, n, m)

IdleDumpVars == <<nFiles, kind, confThreads, confChanSize, cancelled,
                  toExtractChan, extractClosed, toDumpChan, dumpClosed,
                  mainPc, walkNext, walkErr, dumpRet, wPc, wTask, poolPc,
                  consumeWg, globalWg, emPc, emTask, output, recvCount,
                  convCount, convOk, sentCount, workerFailed, emFailed,
                  prevRun>>

CallConvertGPSCoordinates ==
    /\ call.fn = "convertGPSCoordinates" /\ ~call.done
    /\ call' = [call EXCEPT !.done = TRUE,
                            !.res = convertGPSCoordinates(call.arg)]
    /\ UNCHANGED <<IdleDumpVars, idx>>

CallIndexerConvert ==
    /\ call.fn = "indexer_convert" /\ ~call.done
    /\ call' = [call EXCEPT !.done = TRUE,
                            !.res = indexer_convert(call.count, call.arg)]
    /\ UNCHANGED <<IdleDumpVars, idx>>

CallMetadataConvert ==
    /\ call.fn = "metadata_convert" /\ ~call.done
    /\ call' = [call EXCEPT !.done = TRUE,
                            !.res = metadata_convert(call.count, call.arg)]
    /\ UNCHANGED <<IdleDumpVars, idx>>

NextCall ==
    \/ CallConvertGPSCoordinates
    \/ CallIndexerConvert
    \/ CallMetadataConvert

CallSpec == InitCall /\ [][NextCall]_vars

----------------------------------------------------------------------------
\* Indexer.Index of package indexer, lines 75-101: filepath.Walk calls the
\* function once per entry of the input tree, in lexical order.  An entry is
\* a directory, a file (with the records exiftool gives for it), or one the
\* walk could not read (the function is then called with err # nil).

FileEntry(count, meta) == [kind |-> "file", count |-> count, meta |-> meta]
DirEntry == [kind |-> "dir", count |-> 0, meta |-> EmptyPic]
UnreadableEntry == [kind |-> "unreadable", count |-> 0, meta |-> EmptyPic]

Entries ==
    {DirEntry, UnreadableEntry,
     FileEntry(1, [EmptyPic EXCEPT ![MIMETYPE_KEY] = Str(ImageMime)]),
     FileEntry(1, [EmptyPic EXCEPT ![MIMETYPE_KEY] = Str(VideoMime)]),
     FileEntry(1, EmptyPic),
     FileEntry(0, EmptyPic),
     FileEntry(1, [EmptyPic EXCEPT ![MIMETYPE_KEY] = Str(ImageMime),
                                   ![CAPTUREDATE_KEY] = Str(BadMonthDate)]),
     FileEntry(1, [EmptyPic EXCEPT ![MIMETYPE_KEY] = Str(ImageMime),
                                   ![APERTURE_KEY] = Str(<<"X">>)])}

Trees == UNION {[1..n -> Entries] : n \in 0..MaxEntries}

InitIndex ==
    /\ DumpIdle
    /\ call = NoCall
    /\ \E tree \in Trees :
          idx = [pc |-> "walk", tree |-> tree, next |-> 1, converted |-> <<>>,
                 out |-> <<>>, ret |-> "none"]

\* lines 80-82: the function returns the error it is given, Walk returns it,
\* lines 96-98: Index returns it wrapped.
IndexWalkError ==
    /\ idx.pc = "walk" /\ idx.next <= Len(idx.tree)
    /\ idx.tree[idx.next].kind = "unreadable"
    /\ idx' = [idx EXCEPT !.pc = "returned", !.ret = "err"]
    /\ UNCHANGED <<IdleDumpVars, call>>

\* line 83: a directory is skipped.
IndexVisitDir ==
    /\ idx.pc = "walk" /\ idx.next <= Len(idx.tree)
    /\ idx.tree[idx.next].kind = "dir"
    /\ idx' = [idx EXCEPT !.next = @ + 1]
    /\ UNCHANGED <<IdleDumpVars, call>>

\* lines 83-93: the file is converted; a returned error is logged; a picture
\* whose MIME type starts with "image/" is written, the header line by
\* fmt.Fprintln (its error dropped), the record by Encode (its error
\* logged).  A write to the standard output succeeds or fails.  A panic of
\* convert is not recovered: it ends the program.
IndexVisitFile ==
    /\ idx.pc = "walk" /\ idx.next <= Len(idx.tree)
    /\ idx.tree[idx.next].kind = "file"
    /\ LET e == idx.tree[idx.next]
           r == indexer_convert(e.count, e.meta)
           mime == r.pic[MIMETYPE_KEY]
       IN
       IF r.st = "panic"
       THEN idx' = [idx EXCEPT !.pc = "panicked",
                               !.converted = Append(@, idx.next)]
       ELSE IF r.st = "ok" /\ mime.t = "str"
                 /\ HasPrefix(mime.s, IMAGE_MIME_TYPE)
       THEN \E headerOk, picOk \in BOOLEAN :
              idx' = [idx EXCEPT
                        !.next = @ + 1,
                        !.converted = Append(@, idx.next),
                        !.out = @ \o (IF headerOk
                                      THEN << <<"header", idx.next>> >>
                                      ELSE <<>>)
                                 \o (IF picOk
                                     THEN << <<"pic", idx.next>> >>
                                     ELSE <<>>)]
       ELSE idx' = [idx EXCEPT !.next = @ + 1,
                               !.converted = Append(@, idx.next)]
    /\ UNCHANGED <<IdleDumpVars, call>>

\* lines 96-100: the walk is over, Index returns nil.
IndexReturn ==
    /\ idx.pc = "walk" /\ idx.next > Len(idx.tree)
    /\ idx' = [idx EXCEPT !.pc = "returned", !.ret = "nil"]
    /\ UNCHANGED <<IdleDumpVars, call>>

NextIndex ==
    \/ IndexWalkError
    \/ IndexVisitDir
    \/ IndexVisitFile
    \/ IndexReturn

IndexSpec == InitIndex /\ [][NextIndex]_vars

----------------------------------------------------------------------------
\* Vocabulary of the properties.

AllWorkersDone == \A w \in Workers : wPc[w] = "done"

\* A worker or the emitter has called cancel().
FailureSignalled == workerFailed \/ emFailed # "none"

\* The two-line documents written so far: one per record line.
DocsWritten == Cardinality({i \in 1..Len(output) : output[i][1] = "pic"})

\* The files whose conversion fails.
BadFiles == {f \in Files : kind[f] = "bad"}

\* The files of the printTasks in flight or written.
PrintTaskFiles ==
    {toDumpChan[i] : i \in 1..Len(toDumpChan)}
        \cup {output[i][2] : i \in 1..Len(output)}
        \cup (IF emTask = 0 THEN {} ELSE {emTask})

----------------------------------------------------------------------------
\* C1: when a worker's conversion or header building fails and cancels the
\* run, Dump eventually returns, with the walk, every worker and the emitter
\* terminated (nobody stays blocked on a channel).
C1_WorkerFailureLeadsToReturn ==
    workerFailed ~> (mainPc = "returned" /\ AllWorkersDone /\ emPc = "done")

\* C2: when the emitter's serialization fails and it cancels and exits, every
\* worker still terminates, toDumpChan gets closed and Dump returns.
C2_EmitterFailureLeadsToReturn ==
    (emFailed # "none") ~>
        (AllWorkersDone /\ dumpClosed > 0 /\ mainPc = "returned")

\* C3: when a worker or the emitter has failed and the walk succeeded, the
\* value Dump returns is a non-nil error.
C3_FailureReturnsError ==
    (mainPc = "returned" /\ ~walkErr /\ FailureSignalled) => dumpRet # "nil"

\* C4: whenever Dump has returned, the emitter, the pool and every worker have
\* terminated.
C4_NoGoroutineLeftAtReturn ==
    mainPc = "returned" =>
        (emPc = "done" /\ poolPc = "done" /\ AllWorkersDone)

\* C5 as stated: when the run finishes, the number of documents emitted equals
\* N minus the number of files whose conversion fails (taken here in the runs
\* that favour it: the walk succeeded and no serialization failed).
C5_EmittedEqualsNMinusFailing ==
    (mainPc = "returned" /\ dumpRet = "nil" /\ emFailed = "none") =>
        DocsWritten = nFiles - Cardinality(BadFiles)

\* C5 as amended: when the run finishes, the number of documents emitted is at
\* most N minus the number of files whose conversion fails, and equals it when
\* the walk succeeded and nothing cancelled the run.
C5_EmittedAtMostNMinusFailing ==
    mainPc = "returned" =>
        /\ DocsWritten <= nFiles - Cardinality(BadFiles)
        /\ (dumpRet = "nil" /\ ~cancelled) =>
               DocsWritten = nFiles - Cardinality(BadFiles)

C5_Witness ==
    /\ mainPc = "returned"
    /\ dumpRet = "nil"
    /\ workerFailed
    /\ DocsWritten >= 1
    /\ DocsWritten < nFiles - Cardinality(BadFiles)

\* C6: every printTask sent or written belongs to a task whose conversion had
\* succeeded, each task has produced at most one printTask, and a task whose
\* conversion fails has produced none.
C6_PrintTaskOnlyAfterSuccess ==
    /\ \A f \in Files :
          /\ sentCount[f] <= 1
          /\ sentCount[f] = 1 => f \in convOk
          /\ kind[f] = "bad" => sentCount[f] = 0
    /\ \A f \in PrintTaskFiles : f \in Files /\ sentCount[f] = 1
    /\ \A w \in Workers : wPc[w] = "send" => wTask[w] \in convOk

C6_Witness ==
    /\ \E f \in Files :
          sentCount[f] = 1 /\ Len(output) > 0 /\ output[Len(output)] = <<"pic", f>>
    /\ \E g \in Files : kind[g] = "bad" /\ convCount[g] = 1
    /\ \E w \in Workers : wPc[w] = "send"

\* C7: each task pushed by the walk is received by at most one worker and
\* converted at most once; no two workers hold the same task; a failed task is
\* not converted again.
C7_TaskConsumedOnce ==
    /\ \A f \in Files : recvCount[f] <= 1 /\ convCount[f] <= recvCount[f]
    /\ \A w1, w2 \in Workers :
          (w1 # w2 /\ wTask[w1] # 0) => wTask[w1] # wTask[w2]

C7_Witness ==
    /\ extractionThreadCount >= 2
    /\ AllWorkersDone
    /\ \E f, g \in Files :
          /\ kind[f] = "ok" /\ convCount[f] = 1
          /\ kind[g] = "bad" /\ convCount[g] = 1

\* C8 as stated: once a worker or the emitter has signalled failure, no worker
\* starts the conversion of a further task.
C8_NoConversionAfterFailure ==
    [][FailureSignalled => convCount' = convCount]_vars

\* C8 as amended: once a worker or the emitter has signalled failure, no worker
\* passes its cancellation check any more: the only conversions still started
\* are those of workers that had passed the check before the signal, one task
\* each.
C8_NoCheckPassedAfterFailure ==
    [][FailureSignalled =>
          \A w \in Workers : wPc'[w] = "convert" => wPc[w] = "convert"]_vars

C8_Witness ==
    /\ FailureSignalled
    /\ \E w1, w2 \in Workers : wPc[w1] = "check" /\ wPc[w2] = "convert"

\* C9: when the walk returns an error, Dump cancels and returns the walk
\* error, also when a worker or the emitter failed in the same run; nothing
\* blocks it on the way, and it returns one value, once.
C9_WalkErrorReturned ==
    /\ (walkErr /\ mainPc = "close") => ENABLED DumpClose
    /\ (walkErr /\ mainPc = "check") => ENABLED DumpReturnErr
    /\ (walkErr /\ mainPc = "returned") => (dumpRet = "walkErr" /\ cancelled)
    /\ dumpRet = "walkErr" => walkErr
    /\ mainPc # "returned" <=> dumpRet = "none"

C9_Witness ==
    /\ walkErr
    /\ mainPc = "returned"
    /\ dumpRet = "walkErr"
    /\ workerFailed
    /\ emFailed # "none"

\* The stream is made of (header, record) pairs of one printTask each, but for
\* a last header whose record is missing.
OutputPaired ==
    \A i \in 1..Len(output) :
        /\ output[i][1] = "pic" =>
              (i > 1 /\ output[i - 1] = <<"header", output[i][2]>>)
        /\ (output[i][1] = "header" /\ i < Len(output)) =>
              output[i + 1] = <<"pic", output[i][2]>>

DanglingHeader ==
    Len(output) > 0 /\ output[Len(output)][1] = "header"

\* C10 as stated: in every state the stream is a sequence of (header, record)
\* pairs; a header without its record occurs only as the last line and only
\* when the serialization of that record failed, and then the emitter writes
\* nothing more.
C10_DanglingHeaderOnlyAfterFailure ==
    /\ OutputPaired
    /\ DanglingHeader =>
          (emFailed = "pic" /\ output[Len(output)][2] = emTask)
    /\ emFailed # "none" => emPc = "done"

\* C10 as amended: the same, but a last header without its record also occurs
\* while the emitter stands between the two writes of that printTask.
C10_DanglingHeaderOnlyInFlightOrFailed ==
    /\ OutputPaired
    /\ DanglingHeader =>
          /\ output[Len(output)][2] = emTask
          /\ (emPc = "pic" /\ emFailed = "none")
                \/ (emPc = "done" /\ emFailed = "pic")
    /\ emFailed # "none" => emPc = "done"

C10_Witness ==
    /\ Len(output) >= 3
    /\ DanglingHeader
    /\ emFailed = "pic"

----------------------------------------------------------------------------
\* A step of a goroutine of the run: every step but the traversal error, which
\* the file system decides.
GoroutineStep ==
    \/ WalkVisit
    \/ WalkPush
    \/ BrowseImagesOk
    \/ DumpClose
    \/ DumpReturnErr
    \/ DumpWaitReturn
    \/ \E w \in Workers :
          \/ WorkerRecv(w)
          \/ WorkerRangeEnd(w)
          \/ WorkerCheck(w)
          \/ WorkerConvert(w)
          \/ WorkerSend(w)
    \/ StartConvertersClose
    \/ EmitterRecv
    \/ EmitterRangeEnd
    \/ EmitterCheck
    \/ EmitterHeader
    \/ EmitterPic

\* No conversion fails, and so far neither the walk nor a write has failed.
CleanRun == BadFiles = {} /\ ~walkErr /\ emFailed = "none"

\* C11: when the walk succeeds and no conversion and no write fails, Dump
\* returns nil with exactly two lines for each of the N files, each file once
\* (none for N = 0).  Every step of such a run moves a goroutine forward, so
\* the run ends once no state short of the return is stuck: until Dump has
\* returned, some goroutine can take a step.
C11_CleanRunReturnsAllDocuments ==
    CleanRun =>
        IF mainPc = "returned"
        THEN /\ dumpRet = "nil"
             /\ Len(output) = 2 * nFiles
             /\ \A f \in Files :
                   Cardinality({i \in 1..Len(output) :
                                    output[i] = <<"header", f>>}) = 1
             /\ OutputPaired /\ ~DanglingHeader
        ELSE ENABLED GoroutineStep

C11_Witness ==
    /\ CleanRun
    /\ mainPc = "returned"
    /\ nFiles >= 2
    /\ extractionThreadCount >= 2
    /\ Len(output) = 2 * nFiles
    /\ output[1] = <<"header", 2>>

\* C16: toDumpChan is closed once, by the pool, after every worker has
\* terminated; no worker is left to send on the closed channel; once it is
\* closed and drained the emitter, if still running, ends its range.
C16_PrintChannelClosedOnceAfterWorkers ==
    /\ dumpClosed <= 1
    /\ dumpClosed = 1 <=> poolPc = "done"
    /\ dumpClosed = 1 => AllWorkersDone
    /\ (dumpClosed = 1 /\ toDumpChan = <<>> /\ emPc = "recv") =>
          ENABLED EmitterRangeEnd
    /\ emPc = "recv" /\ toDumpChan = <<>> /\ dumpClosed = 0 =>
          ~ENABLED (EmitterRecv \/ EmitterRangeEnd)

C16_Witness ==
    /\ dumpClosed = 1
    /\ emPc = "done"
    /\ ~cancelled
    /\ Len(output) >= 4

\* C17: once a worker or the emitter has triggered cancellation, the walk
\* pushes no further task on toExtractChan.
C17_NoPushAfterCancellation ==
    [][FailureSignalled => Len(toExtractChan') <= Len(toExtractChan)]_vars

\* C18: the task channel never holds more than its configured capacity nor
\* the print-task channel more than the worker count; the walk cannot enqueue
\* on a full task channel nor a worker on a full print-task channel.
C18_ChannelsBounded ==
    /\ Len(toExtractChan) <= toExtractChannelSize
    /\ Len(toDumpChan) <= extractionThreadCount
    /\ Len(toExtractChan) = toExtractChannelSize => ~ENABLED WalkPush
    /\ Len(toDumpChan) = extractionThreadCount =>
          \A w \in Workers : ~ENABLED WorkerSend(w)

C18_Witness ==
    /\ Len(toExtractChan) = toExtractChannelSize
    /\ Len(toDumpChan) = extractionThreadCount
    /\ \E w \in Workers : wPc[w] = "send"

\* C12 as stated: two runs over the same unchanged directory write the same
\* set of header/record pairs, whatever the scheduling, also when a file's
\* conversion fails (runs compared: the walk succeeded and no Encode failed).
C12_SameDocumentsOnRerun ==
    (prevRun.done /\ mainPc = "returned" /\ dumpRet = "nil"
        /\ emFailed = "none") => DocSet = prevRun.docs

\* C12 as amended: two runs over the same unchanged directory in which no
\* file's conversion fails write the same set of header/record pairs,
\* whatever the scheduling.
C12_SameDocumentsOnRerunWithoutFailure ==
    (prevRun.done /\ mainPc = "returned" /\ dumpRet = "nil"
        /\ emFailed = "none" /\ BadFiles = {}) => DocSet = prevRun.docs

C12_Witness ==
    /\ prevRun.done
    /\ mainPc = "returned"
    /\ dumpRet = "nil"
    /\ BadFiles = {}
    /\ nFiles >= 2
    /\ extractionThreadCount >= 2
    /\ DocSet = Files
    /\ output[1] = <<"header", 2>>

----------------------------------------------------------------------------
\* The converters (CallSpec) and the sequential Index (IndexSpec).

GpsCallDone == call.fn = "convertGPSCoordinates" /\ call.done

IndexerConvertDone == call.fn = "indexer_convert" /\ call.done

MetadataConvertDone == call.fn = "metadata_convert" /\ call.done

\* The hemisphere markers convertGPSCoordinates looks at: the fifth token
\* without its last character (when it has one), and the tenth token.
LatMarker(sub) ==
    IF Len(sub[5]) = 0 THEN <<>> ELSE SubSeq(sub[5], 1, Len(sub[5]) - 1)

HemisphereLetters == {<<"N">>, <<"S">>, <<"E">>, <<"W">>}

BadHemisphere(s) ==
    /\ Len(Split(s)) = 10
    /\ \/ LatMarker(Split(s)) \notin HemisphereLetters
       \/ Split(s)[10] \notin HemisphereLetters

\* A value of the key is present and is not a string that converts.
MalformedDate(meta) ==
    /\ meta[CAPTUREDATE_KEY].t # "absent"
    /\ ~(meta[CAPTUREDATE_KEY].t = "str" /\ DateParses(meta[CAPTUREDATE_KEY].s))

MalformedGps(meta) ==
    /\ meta[GPS_KEY].t # "absent"
    /\ ~(/\ meta[GPS_KEY].t = "str"
         /\ convertGPSCoordinates(meta[GPS_KEY].s).st = "ok")

\* C13: convert (of either package) returns an error exactly when the
\* metadata count is not one, or the capture date is present and malformed,
\* or the position is present and malformed; otherwise it returns a Model.
C13_ConvertErrorIffCountOrMalformed ==
    (MetadataConvertDone \/ IndexerConvertDone) =>
        /\ call.res.st \in {"ok", "err"}
        /\ call.res.st = "err" <=>
              \/ call.count # 1
              \/ MalformedDate(call.arg)
              \/ MalformedGps(call.arg)

\* C14: a position string that does not split into ten tokens, or whose
\* latitude or longitude hemisphere marker is not one of N, S, E, W, makes
\* convertGPSCoordinates return an error, and convert produce no Model.
C14_BadTokenCountOrHemisphereIsError ==
    /\ GpsCallDone /\ (Len(Split(call.arg)) # 10 \/ BadHemisphere(call.arg))
         => call.res.st = "err"
    /\ (/\ IndexerConvertDone
        /\ call.count = 1
        /\ call.arg[GPS_KEY].t = "str"
        /\ \/ Len(Split(call.arg[GPS_KEY].s)) # 10
           \/ BadHemisphere(call.arg[GPS_KEY].s))
         => call.res.st = "err"

\* The keys whose value is of a type its decoder does not tolerate: the
\* numeric decoders take a number, the date and position readers a string,
\* the keyword reader a string or a list of strings, the string decoder a
\* string or a number.
NumericKeys == {APERTURE_KEY, HEIGHT_KEY, WIDTH_KEY}

StringKeys == {SHUTTER_KEY, CAMERA_KEY, LENS_KEY, MIMETYPE_KEY}

Mismatched(meta, k) ==
    /\ meta[k].t # "absent"
    /\ IF k \in NumericKeys THEN meta[k].t # "num"
       ELSE IF k \in StringKeys THEN meta[k].t \notin {"str", "num"}
       ELSE IF k \in {CAPTUREDATE_KEY, GPS_KEY} THEN meta[k].t # "str"
       ELSE IF k = KEYWORDS_KEY
            THEN \/ meta[k].t = "num"
                 \/ /\ meta[k].t = "list"
                    /\ \E i \in 1..Len(meta[k].l) : meta[k].l[i].t # "str"
       ELSE FALSE

\* C15: a value of a type the decoder of its key does not tolerate is
\* decoded as absent and the conversion goes on: when the count is one and
\* every value of a tolerated type is well formed, convert returns a Model
\* in which each mismatched key is absent.
C15_TypeMismatchIsAbsent ==
    (/\ IndexerConvertDone
     /\ call.count = 1
     /\ call.arg[CAPTUREDATE_KEY].t = "str" => ~MalformedDate(call.arg)
     /\ call.arg[GPS_KEY].t = "str" => ~MalformedGps(call.arg))
      => /\ call.res.st = "ok"
         /\ \A k \in Keys :
               Mismatched(call.arg, k) => call.res.pic[k] = Absent

\* C19: convertGPSCoordinates returns two coordinates or an error for every
\* string; ten tokens with an empty minutes, seconds or latitude marker
\* token give an error.
C19_ConvertGPSCoordinatesTotal ==
    GpsCallDone =>
        /\ call.res.st \in {"ok", "err"}
        /\ (/\ Len(Split(call.arg)) = 10
            /\ \E i \in {3, 4, 5, 8, 9} : Split(call.arg)[i] = <<>>)
             => call.res.st = "err"

\* The files the walk has visited so far, in walk order.
VisitedFiles ==
    SelectSeq([i \in 1..(idx.next - 1) |-> i],
              LAMBDA i : idx.tree[i].kind = "file")

\* The lines of the documents Index owes for the files visited so far.
RECURSIVE DocumentsOf(_)
DocumentsOf(fs) ==
    IF Len(fs) = 0 THEN <<>>
    ELSE LET i == fs[1]
             r == indexer_convert(idx.tree[i].count, idx.tree[i].meta)
         IN (IF /\ r.st = "ok"
                /\ r.pic[MIMETYPE_KEY].t = "str"
                /\ HasPrefix(r.pic[MIMETYPE_KEY].s, IMAGE_MIME_TYPE)
             THEN << <<"header", i>>, <<"pic", i>> >>
             ELSE <<>>) \o DocumentsOf(Tail(fs))

\* C20: in the sequential Index no file stops the run: every file visited
\* is converted once in walk order, the output holds a header line and a
\* record for exactly the files converted to a picture of an image MIME
\* type, and Index returns an error only when the walk failed.
C20_IndexNeverAbortsOnFileError ==
    idx.pc # "idle" =>
        /\ idx.pc # "panicked"
        /\ idx.converted = VisitedFiles
        /\ idx.out = DocumentsOf(VisitedFiles)
        /\ idx.ret = "err" =>
              /\ idx.next <= Len(idx.tree)
              /\ idx.tree[idx.next].kind = "unreadable"

====
